---------------------------- MODULE Spec2Model ----------------------------
(***************************************************************************)
(* A model of google2pandas/_panalysis_ga.py: the service reader classes,  *)
(* GoogleAnalyticsQuery.execute_query (the pagination loop) and            *)
(* GoogleAnalyticsQuery.resp2frame (the flattening of a response into a    *)
(* table).                                                                 *)
(*                                                                         *)
(* Python strings whose characters matter (column names) are sequences of  *)
(* one-character strings.  A key that a dict may lack is a field holding   *)
(* Absent, or a has<Key> flag beside the field.  A pandas DataFrame is a   *)
(* record of its ordered column names and its rows, each row a sequence of *)
(* cells aligned with the columns.                                         *)
(***************************************************************************)
EXTENDS Integers, Sequences, FiniteSets, TLC

VARIABLES
    \* ---- execute_query ----
    heap,        \* object store: reference -> query dict (NoObj when unallocated)
    qry,         \* the reference bound to the local qry (0 when unbound)
    all_results, \* the all_results argument of the calls of this behaviour
    as_dict,     \* the as_dict argument of the current call
    pc,          \* position of the current call
    out,         \* the local out of execute_query
    reqLog,      \* bodies of the batchGet requests of the current call, as sent
    script,      \* what the service answers to request 1, 2, ... (fixed once given)
    ret,         \* what the current call returned or raised
    resDict,     \* result of the latest finished call with as_dict=True
    resFrame,    \* result of the latest finished call with as_dict=False
    query0,      \* the caller's query as it was before the first call
    \* ---- resp2frame, one report per step ----
    resp,        \* the argument of resp2frame
    idx,         \* number of reports the for loop has taken
    fout,        \* the local out of resp2frame
    df,          \* the local df of resp2frame (table of the report taken last)
    ferr,        \* the exception resp2frame raised, "none" if none
    fpc,         \* position of resp2frame
    \* ---- the column-name clean-up on its own ----
    name,        \* a header name
    stripped,    \* what line 134 makes of it
    npc,
    \* ---- construction ----
    objs,        \* the objects constructed so far
    lastCall     \* outcome of the latest constructor or _init_service call

execVars  == <<heap, qry, all_results, as_dict, pc, out, reqLog, script, ret,
               resDict, resFrame, query0>>
frameVars == <<resp, idx, fout, df, ferr, fpc>>
nameVars  == <<name, stripped, npc>>
ctorVars  == <<objs, lastCall>>
vars      == <<execVars, frameVars, nameVars, ctorVars>>

-----------------------------------------------------------------------------
(* Bounds *)
MaxReports == 2     \* reports in a response handed to resp2frame
MaxNameLen == 4     \* characters in a header name of the name clean-up
MaxPages   == 3     \* pages the service serves to one call
MaxObjs    == 4     \* objects constructed

Absent == "<absent>"        \* a dict key that is not there

-----------------------------------------------------------------------------
(* Python strings as sequences of characters *)

Ga == <<"g", "a", ":">>

StartsWith(s, p) == Len(s) >= Len(p) /\ SubSeq(s, 1, Len(p)) = p

\* str.replace(old, new) for a non-empty old: the occurrences are found left
\* to right, without overlap, and what was put in is not scanned again.
RECURSIVE replace(_, _, _)
replace(s, old, new) ==
    IF s = <<>> THEN <<>>
    ELSE IF StartsWith(s, old)
         THEN new \o replace(SubSeq(s, Len(old) + 1, Len(s)), old, new)
         ELSE <<Head(s)>> \o replace(Tail(s), old, new)

\* line 134: cols = list(map(lambda x: x.replace("ga:", ""), cols))
strip_cols(cols) == [i \in 1..Len(cols) |-> replace(cols[i], Ga, <<>>)]

-----------------------------------------------------------------------------
(* pandas: cells and tables *)

Str(v)  == [t |-> "str",  v |-> v]
Num(v)  == [t |-> "num",  v |-> v]
Date(v) == [t |-> "date", v |-> v]
NaN     == [t |-> "nan",  v |-> ""]

\* The strings of the model that pd.to_numeric parses, and those that
\* pd.to_datetime(format="%Y%m%d") parses.
NumericStrs == {"7", "8", "20230115"}
DateStrs    == {"20230115"}

\* pd.DataFrame()
EmptyFrame == [columns |-> <<>>, rows |-> <<>>]

Range(s) == {s[i] : i \in 1..Len(s)}

IndexOf(c, cols) == CHOOSE i \in 1..Len(cols) : cols[i] = c

RECURSIVE SelectNew(_, _)
SelectNew(cols, old) ==
    IF cols = <<>> THEN <<>>
    ELSE IF Head(cols) \in Range(old)
         THEN SelectNew(Tail(cols), old)
         ELSE <<Head(cols)>> \o SelectNew(Tail(cols), old)

Realign(row, from, to) ==
    [i \in 1..Len(to) |->
        IF to[i] \in Range(from) THEN row[IndexOf(to[i], from)] ELSE NaN]

\* pd.concat((a, b), ignore_index=True): the columns of a, then those of b
\* that a lacks; the rows of a, then those of b; NaN where a row has no
\* value for a column.
concat(a, b) ==
    LET columns == a.columns \o SelectNew(b.columns, a.columns)
    IN  [columns |-> columns,
         rows    |-> [i \in 1..Len(a.rows) |-> Realign(a.rows[i], a.columns, columns)]
                     \o [i \in 1..Len(b.rows) |-> Realign(b.rows[i], b.columns, columns)]]

\* pd.to_numeric(row, errors='ignore') on one row: every cell becomes a
\* number if every cell can, otherwise the row comes back as it was.
Numeric(cell) ==
    \/ cell.t \in {"num", "nan"}
    \/ cell.t = "str" /\ cell.v \in NumericStrs

to_numeric(row) ==
    IF \A i \in 1..Len(row) : Numeric(row[i])
    THEN [i \in 1..Len(row) |-> IF row[i].t = "str" THEN Num(row[i].v) ELSE row[i]]
    ELSE row

\* line 162: out.apply(pd.to_numeric, errors='ignore', axis=1)
apply_to_numeric(t) ==
    [columns |-> t.columns, rows |-> [i \in 1..Len(t.rows) |-> to_numeric(t.rows[i])]]

DateName == <<"d", "a", "t", "e">>

DateOk(cell) ==
    \/ cell.t \in {"date", "nan"}
    \/ cell.t \in {"str", "num"} /\ cell.v \in DateStrs

\* lines 164-165: the date column, if there is one, parsed as %Y%m%d;
\* a value that does not parse raises ValueError.
to_datetime(t) ==
    IF DateName \notin Range(t.columns) THEN [err |-> "none", out |-> t]
    ELSE LET d == IndexOf(DateName, t.columns)
         IN  IF \E i \in 1..Len(t.rows) : ~DateOk(t.rows[i][d])
             THEN [err |-> "ValueError", out |-> t]
             ELSE [err |-> "none",
                   out |-> [columns |-> t.columns,
                            rows |-> [i \in 1..Len(t.rows) |->
                               [j \in 1..Len(t.columns) |->
                                  IF j = d /\ t.rows[i][j].t \in {"str", "num"}
                                  THEN Date(t.rows[i][j].v)
                                  ELSE t.rows[i][j]]]]]

-----------------------------------------------------------------------------
(* resp2frame *)

\* lines 110-117
lookup == [INTEGER |-> "int32", FLOAT |-> "float32", CURRENCY |-> "float32",
           PERCENT |-> "float32", TIME |-> "object", STRING |-> "object"]

RECURSIVE FlattenValues(_)
FlattenValues(metrics) ==
    IF metrics = <<>> THEN <<>>
    ELSE Head(metrics).values \o FlattenValues(Tail(metrics))

\* lines 142-147: the dimension values, then the values of every metric group
row_list(row) ==
    row.dimensions \o (IF row.hasMetrics THEN FlattenValues(row.metrics) ELSE <<>>)

\* lines 123-134: the column names of a report, or the KeyError of a header
\* without dimensions or of a metric type that lookup does not know
header_cols(report) ==
    LET col_hdrs == report.columnHeader
        metrics  == IF col_hdrs.hasMetricHeader THEN col_hdrs.metricHeaderEntries ELSE <<>>
    IN  IF ~col_hdrs.hasDimensions THEN [err |-> "KeyError", cols |-> <<>>]
        ELSE IF \E i \in 1..Len(metrics) : metrics[i].type \notin DOMAIN lookup
             THEN [err |-> "KeyError", cols |-> <<>>]
             ELSE [err |-> "none",
                   cols |-> strip_cols(col_hdrs.dimensions
                                       \o [i \in 1..Len(metrics) |-> metrics[i].name])]

\* A mutant of drow: a short row is filled up instead of raising.
drow_padded(cols, values) ==
    [err |-> "none",
     row |-> [i \in 1..Len(cols) |-> IF i <= Len(values) THEN Str(values[i]) ELSE NaN]]

\* lines 151-153: drow.update({c : row_list[i]}) for every column, by
\* position; row_list[i] raises IndexError when the row has fewer values
\* than there are columns, and values beyond the columns are never read.
drow(cols, values) ==
    IF Len(values) < Len(cols) THEN [err |-> "IndexError", row |-> <<>>]
    ELSE [err |-> "none", row |-> [i \in 1..Len(cols) |-> Str(values[i])]]

\* lines 136-157: df, the table of the rows of one report
RECURSIVE build_df(_, _, _)
build_df(cols, rows, acc) ==
    IF rows = <<>> THEN [err |-> "none", df |-> acc]
    ELSE LET d == drow(cols, row_list(Head(rows)))
         IN  IF d.err # "none" THEN [err |-> d.err, df |-> acc]
             ELSE build_df(cols, Tail(rows),
                           concat(acc, [columns |-> cols, rows |-> <<d.row>>]))

\* `if rows:` (line 140): the key is there and the list is not empty
has_rows(report) == report.hasRows /\ report.rows # <<>>

\* lines 120-167: one turn of the loop over the reports
flatten_report(o, report) ==
    LET h == header_cols(report)
    IN  IF h.err # "none" THEN [err |-> h.err, out |-> o, df |-> EmptyFrame]
        ELSE IF has_rows(report)
        THEN LET b == build_df(h.cols, report.rows, [columns |-> h.cols, rows |-> <<>>])
             IN  IF b.err # "none" THEN [err |-> b.err, out |-> o, df |-> b.df]
                 ELSE LET d == to_datetime(apply_to_numeric(concat(o, b.df)))
                      IN  [err |-> d.err, out |-> d.out, df |-> b.df]
        ELSE [err |-> "none", out |-> EmptyFrame,
              df |-> [columns |-> h.cols, rows |-> <<>>]]

\* lines 106-169: the fold of flatten_report over resp['reports']
RECURSIVE fold_reports(_, _)
fold_reports(o, reports) ==
    IF reports = <<>> THEN [err |-> "none", out |-> o]
    ELSE LET r == flatten_report(o, Head(reports))
         IN  IF r.err # "none" THEN [err |-> r.err, out |-> EmptyFrame]
             ELSE fold_reports(r.out, Tail(reports))

resp2frame(r) == fold_reports(EmptyFrame, r.reports)

-----------------------------------------------------------------------------
(* The responses resp2frame is run on *)

NameDate     == <<"g", "a", ":", "d", "a", "t", "e">>
NameSessions == <<"g", "a", ":", "s">>
NamePage     == <<"g", "a", ":", "p">>

\* dimensions [ga:date], metrics [ga:s INTEGER]
HdrDateSessions ==
    [hasDimensions |-> TRUE, dimensions |-> <<NameDate>>, hasMetricHeader |-> TRUE,
     metricHeaderEntries |-> <<[name |-> NameSessions, type |-> "INTEGER"]>>]
\* dimensions [ga:p], no metricHeader
HdrPage ==
    [hasDimensions |-> TRUE, dimensions |-> <<NamePage>>, hasMetricHeader |-> FALSE,
     metricHeaderEntries |-> <<>>]
\* a columnHeader without 'dimensions'
HdrNoDimensions ==
    [hasDimensions |-> FALSE, dimensions |-> <<>>, hasMetricHeader |-> TRUE,
     metricHeaderEntries |-> <<[name |-> NameSessions, type |-> "INTEGER"]>>]

Headers == {HdrDateSessions, HdrPage, HdrNoDimensions}

RowExact     == [dimensions |-> <<"20230115">>, hasMetrics |-> TRUE,
                 metrics |-> <<[values |-> <<"7">>]>>]
RowNoMetrics == [dimensions |-> <<"20230115">>, hasMetrics |-> FALSE, metrics |-> <<>>]
RowLong      == [dimensions |-> <<"20230115", "x">>, hasMetrics |-> TRUE,
                 metrics |-> <<[values |-> <<"7">>], [values |-> <<"8">>]>>]
RowText      == [dimensions |-> <<"x">>, hasMetrics |-> TRUE,
                 metrics |-> <<[values |-> <<"7">>]>>]

RowLists == {<<>>, <<RowExact>>, <<RowNoMetrics>>, <<RowLong>>,
             <<RowExact, RowText>>, <<RowExact, RowNoMetrics>>}

MkReport(h, hasRows, rows, tkn) ==
    [columnHeader |-> h, hasRows |-> hasRows, rows |-> rows, nextPageToken |-> tkn]

\* every header with every row list, and with no 'rows' key at all
FrameReports ==
    {MkReport(h, TRUE, rows, Absent) : h \in Headers, rows \in RowLists}
    \cup {MkReport(h, FALSE, <<>>, Absent) : h \in Headers}

SeqsUpTo(S, n) == UNION {[1..k -> S] : k \in 0..n}

FrameResponses == {[reports |-> rs] : rs \in SeqsUpTo(FrameReports, MaxReports)}

-----------------------------------------------------------------------------
(* resp2frame as a process: one report per step *)

FrameIdle == resp = [reports |-> <<>>] /\ idx = 0 /\ fout = EmptyFrame
             /\ df = EmptyFrame /\ ferr = "none" /\ fpc = "idle"

\* line 108: out = pd.DataFrame()
FrameInit == /\ resp \in FrameResponses
             /\ idx = 0
             /\ fout = EmptyFrame
             /\ df = EmptyFrame
             /\ ferr = "none"
             /\ fpc = "loop"

\* lines 120-167: the loop takes the next report; an exception ends the call
TakeReport ==
    /\ fpc = "loop"
    /\ idx < Len(resp.reports)
    /\ LET r == flatten_report(fout, resp.reports[idx + 1])
       IN  /\ idx' = idx + 1
           /\ fout' = r.out
           /\ df' = r.df
           /\ ferr' = r.err
           /\ fpc' = IF r.err = "none" THEN "loop" ELSE "raised"
    /\ UNCHANGED resp

\* line 169: return out
ReturnFrame ==
    /\ fpc = "loop"
    /\ idx = Len(resp.reports)
    /\ fpc' = "returned"
    /\ UNCHANGED <<resp, idx, fout, df, ferr>>

-----------------------------------------------------------------------------
(* The column-name clean-up on every short name over a small alphabet *)

NameChars == {"g", "a", ":", "x"}
Names == SeqsUpTo(NameChars, MaxNameLen)

NameIdle == name = <<>> /\ stripped = <<>> /\ npc = "idle"

NameInit == name \in Names /\ stripped = <<>> /\ npc = "given"

\* line 134 on a header with the one name
StripName ==
    /\ npc = "given"
    /\ stripped' = strip_cols(<<name>>)[1]
    /\ npc' = "stripped"
    /\ UNCHANGED name

-----------------------------------------------------------------------------
(* execute_query: the service, the queries and the pages *)

Entry(view, tkn) == [viewId |-> view, pageToken |-> tkn]

\* The caller's queries: no reportRequests entry, one, two, and one that
\* already carries a pageToken.
Queries == {[reportRequests |-> <<>>],
            [reportRequests |-> <<Entry("v1", Absent)>>],
            [reportRequests |-> <<Entry("v1", Absent), Entry("v2", Absent)>>],
            [reportRequests |-> <<Entry("v1", "p0")>>]}

Tokens == {Absent, "", "p1", "p2"}

ReportA(tkn) == MkReport(HdrDateSessions, TRUE, <<RowExact>>, tkn)
ReportB(tkn) == MkReport(HdrPage, TRUE, <<RowNoMetrics>>, tkn)

\* The report lists of a page: none, one report, or two whose tokens differ
\* freely.
Pages == {<<>>}
         \cup {<<ReportA(t)>> : t \in Tokens}
         \cup {<<ReportA(t1), ReportB(t2)>> : t1 \in Tokens, t2 \in {Absent, "p2"}}

\* What batchGet(...).execute() gives back: the reports and one more key of
\* the response body.
Response(reports) == [reports |-> reports, queryCost |-> "1"]

PageAnswer(reports) == [kind |-> "page", response |-> Response(reports)]
FailAnswer          == [kind |-> "fail", response |-> Response(<<>>)]

\* A mutant of next_page_token: the token of the page's last report.
last_page_token(response) ==
    LET t == response.reports[Len(response.reports)].nextPageToken
    IN  IF t = Absent THEN "" ELSE t

\* line 89: tkn = response.get('reports', [])[0].get('nextPageToken', '')
next_page_token(response) ==
    LET t == response.reports[1].nextPageToken
    IN  IF t = Absent THEN "" ELSE t

\* The service serves at most MaxPages pages to a call: the page that fills
\* the bound is one after which the loop asks for no more.
Continues(reports) == reports # <<>> /\ reports[1].nextPageToken \notin {Absent, ""}

Answers(n) ==
    {PageAnswer(p) : p \in {q \in Pages : n < MaxPages \/ ~Continues(q)}}

\* Results of a call
NoResult    == [kind |-> "none",  resp |-> Response(<<>>), table |-> EmptyFrame,
                err |-> "none", at |-> "none"]
Raised(e, w) == [kind |-> "raise", resp |-> Response(<<>>), table |-> EmptyFrame,
                err |-> e, at |-> w]
AsDict(o)   == [kind |-> "dict",  resp |-> o, table |-> EmptyFrame,
                err |-> "none", at |-> "none"]
AsFrame(t)  == [kind |-> "frame", resp |-> Response(<<>>), table |-> t,
                err |-> "none", at |-> "none"]

\* A mutant of deepcopy: qry is the caller's own dict.
no_copy(ref) == ref

\* line 82: deepcopy(query) gives a new object, and qry refers to it
deepcopy(ref) == "qry"

\* A mutant of accumulate: the page replaces what was gathered.
accumulate_last(o, response) == [reports |-> response.reports]

\* line 87: out['reports'] = out['reports'] + response['reports']
accumulate(o, response) == [reports |-> o.reports \o response.reports]

\* line 91: qry['reportRequests'][0].update({'pageToken' : tkn})
with_page_token(q, tkn) == [q EXCEPT !.reportRequests[1].pageToken = tkn]

\* A mutant of single_page: only the reports are kept.
single_page_reports(response) == [reports |-> response.reports]

\* line 97: out = self._service.reports().batchGet(body=query).execute()
single_page(response) == response

\* A mutant of raw_result: the raw result is cut to its first report.
raw_result_first(o) ==
    AsDict(IF o.reports = <<>> THEN o ELSE [o EXCEPT !.reports = <<Head(o.reports)>>])

\* line 100: return out
raw_result(o) == AsDict(o)

\* line 103: return self.resp2frame(out)
frame_result(o) ==
    LET f == resp2frame(o)
    IN  IF f.err # "none" THEN Raised(f.err, "resp2frame") ELSE AsFrame(f.out)

\* The body of a request: qry in the loop (line 86), query itself otherwise
\* (line 97).
BodyRef == IF all_results THEN qry ELSE "query"

Finish(r) ==
    /\ ret' = r
    /\ pc' = IF r.kind = "raise" THEN "raised" ELSE "returned"
    /\ resDict'  = IF as_dict THEN r ELSE resDict
    /\ resFrame' = IF as_dict THEN resFrame ELSE r

ExecIdle ==
    /\ heap = [r \in {"query"} |-> [reportRequests |-> <<>>]]
    /\ qry = "none" /\ all_results = FALSE /\ as_dict = FALSE /\ pc = "off"
    /\ out = [reports |-> <<>>] /\ reqLog = <<>> /\ script = <<>>
    /\ ret = NoResult /\ resDict = NoResult /\ resFrame = NoResult
    /\ query0 = [reportRequests |-> <<>>]

ExecInit ==
    /\ query0 \in Queries
    /\ heap = [r \in {"query"} |-> query0]
    /\ qry = "none"
    /\ all_results \in BOOLEAN
    /\ as_dict = FALSE
    /\ pc = "idle"
    /\ out = [reports |-> <<>>]
    /\ reqLog = <<>>
    /\ script = <<>>
    /\ ret = NoResult /\ resDict = NoResult /\ resFrame = NoResult

\* lines 57, 81-83: a call of execute_query(query, as_dict=d, all_results)
Call(d) ==
    /\ pc \in {"idle", "returned", "raised"}
    /\ as_dict' = d
    /\ reqLog' = <<>>
    /\ ret' = NoResult
    /\ out' = [reports |-> <<>>]
    /\ IF all_results
       THEN /\ qry' = deepcopy("query")
            /\ heap' = [r \in DOMAIN heap \cup {qry'} |->
                           IF r = qry' THEN heap["query"] ELSE heap[r]]
       ELSE /\ qry' = "none"
            /\ heap' = heap
    /\ pc' = "request"
    /\ UNCHANGED <<all_results, script, resDict, resFrame, query0>>

\* The service's answer to the next request: the one it gave to that request
\* before, or a new one.
Served(a) ==
    LET n == Len(reqLog) + 1
    IN  /\ n <= MaxPages
        /\ IF n <= Len(script)
           THEN a = script[n] /\ script' = script
           ELSE script' = Append(script, a)

\* lines 86-94 (one turn of the loop) and line 97: the request is answered
BatchGetReturns ==
    /\ pc = "request"
    /\ \E a \in Answers(Len(reqLog) + 1) \cup Range(script) :
         /\ a.kind = "page"
         /\ Served(a)
         /\ reqLog' = Append(reqLog, heap[BodyRef])
         /\ IF all_results
            THEN /\ out' = accumulate(out, a.response)
                 /\ IF a.response.reports = <<>>
                    THEN Finish(Raised("IndexError", "loop")) /\ heap' = heap
                    ELSE LET tkn == next_page_token(a.response)
                         IN  IF tkn # ""
                             THEN IF heap[qry].reportRequests = <<>>
                                  THEN Finish(Raised("IndexError", "loop")) /\ heap' = heap
                                  ELSE /\ heap' = [heap EXCEPT ![qry] = with_page_token(@, tkn)]
                                       /\ pc' = "request"
                                       /\ UNCHANGED <<ret, resDict, resFrame>>
                             ELSE /\ pc' = "collected"
                                  /\ UNCHANGED <<heap, ret, resDict, resFrame>>
            ELSE /\ out' = single_page(a.response)
                 /\ pc' = "collected"
                 /\ UNCHANGED <<heap, ret, resDict, resFrame>>
    /\ UNCHANGED <<qry, all_results, as_dict, query0>>

\* A mutant of BatchGetRaises: the failed request is tried again.
BatchGetRetries ==
    /\ pc = "request"
    /\ Served(FailAnswer)
    /\ reqLog' = Append(reqLog, heap[BodyRef])
    /\ UNCHANGED <<heap, qry, all_results, as_dict, pc, out, ret, resDict, resFrame, query0>>

\* lines 86, 97: execute() raises, nothing catches it
BatchGetRaises ==
    /\ pc = "request"
    /\ Served(FailAnswer)
    /\ reqLog' = Append(reqLog, heap[BodyRef])
    /\ Finish(Raised("HttpError", "batchGet"))
    /\ UNCHANGED <<heap, qry, all_results, as_dict, out, query0>>

\* lines 99-103
Return ==
    /\ pc = "collected"
    /\ Finish(IF as_dict THEN raw_result(out) ELSE frame_result(out))
    /\ UNCHANGED <<heap, qry, all_results, as_dict, out, reqLog, script, query0>>

-----------------------------------------------------------------------------
(* Construction *)

\* line 14
SCOPES == "https://www.googleapis.com/auth/analytics.readonly"

\* The attributes an unbound super object (super(C), one argument) answers
\* to: those of the type super itself.
SuperAttrs == {"__init__", "__get__", "__thisclass__", "__self__", "__self_class__"}

KeyFiles     == {"secrets.json", "nofile.json"}
GoodKeyFiles == {"secrets.json"}

NoValue == [service |-> Absent, version |-> Absent, scope |-> Absent, keyfile |-> Absent]

\* An object before its __init__ runs; held says whether the constructor
\* call handed it to the caller.
Blank(class) == [class |-> class, _scope_ |-> Absent, _api_ |-> Absent,
                 _service |-> NoValue, held |-> FALSE]

\* lines 21-32: GoogleServiceReader.__init__
reader_init(self, scope, service) == [self EXCEPT !._scope_ = SCOPES, !._api_ = "v4"]

\* lines 34-41: _init_service; reading self._scope_ raises AttributeError
\* when nothing has set it, from_json_keyfile_name raises on a bad file
init_service(self, credentials) ==
    IF self._scope_ = Absent THEN [err |-> "AttributeError", value |-> NoValue]
    ELSE IF credentials \notin GoodKeyFiles THEN [err |-> "IOError", value |-> NoValue]
    ELSE [err |-> "none",
          value |-> [service |-> "analyticsreporting", version |-> "v4",
                     scope |-> self._scope_, keyfile |-> credentials]]

\* lines 45-54: GoogleAnalyticsQuery.__init__; line 53 asks the unbound
\* super object for the attribute init
query_init(self, secrets_location) ==
    IF "init" \notin SuperAttrs THEN [err |-> "AttributeError", self |-> self]
    ELSE LET s == init_service(self, secrets_location)
         IN  IF s.err # "none" THEN [err |-> s.err, self |-> self]
             ELSE [err |-> "none", self |-> [self EXCEPT !._service = s.value]]

NoCall == [op |-> "none", arg |-> "", obj |-> 0, err |-> "none", value |-> NoValue]

CtorIdle == objs = <<>> /\ lastCall = NoCall
CtorInit == objs = <<>> /\ lastCall = NoCall

\* GoogleServiceReader(scope)
NewReader ==
    /\ Len(objs) < MaxObjs
    /\ \E scope \in {SCOPES, "other"} :
         /\ objs' = Append(objs, [reader_init(Blank("GoogleServiceReader"), scope,
                                              "analyticsreporting") EXCEPT !.held = TRUE])
         /\ lastCall' = [op |-> "GoogleServiceReader", arg |-> scope,
                         obj |-> Len(objs) + 1, err |-> "none", value |-> NoValue]

\* GoogleAnalyticsQuery(secrets_location); objs keeps the object as the
\* constructor left it, handed to the caller or not
NewQuery ==
    /\ Len(objs) < MaxObjs
    /\ \E secrets \in KeyFiles :
         LET r == query_init(Blank("GoogleAnalyticsQuery"), secrets)
         IN  /\ objs' = Append(objs, [r.self EXCEPT !.held = (r.err = "none")])
             /\ lastCall' = [op |-> "GoogleAnalyticsQuery", arg |-> secrets,
                             obj |-> Len(objs) + 1, err |-> r.err, value |-> r.self._service]

\* o._init_service(credentials) on an object the caller holds
InitService ==
    \E o \in 1..Len(objs), credentials \in KeyFiles :
        /\ objs[o].held
        /\ LET r == init_service(objs[o], credentials)
           IN  lastCall' = [op |-> "_init_service", arg |-> credentials, obj |-> o,
                            err |-> r.err, value |-> r.value]
        /\ UNCHANGED objs

-----------------------------------------------------------------------------
(* Specifications *)

Init == ExecInit /\ FrameIdle /\ NameIdle /\ CtorIdle

Next ==
    \/ (\E d \in BOOLEAN : Call(d)) /\ UNCHANGED <<frameVars, nameVars, ctorVars>>
    \/ BatchGetReturns /\ UNCHANGED <<frameVars, nameVars, ctorVars>>
    \/ BatchGetRaises /\ UNCHANGED <<frameVars, nameVars, ctorVars>>
    \/ Return /\ UNCHANGED <<frameVars, nameVars, ctorVars>>

Spec == Init /\ [][Next]_vars

InitFrame == ExecIdle /\ FrameInit /\ NameIdle /\ CtorIdle

NextFrame ==
    \/ TakeReport /\ UNCHANGED <<execVars, nameVars, ctorVars>>
    \/ ReturnFrame /\ UNCHANGED <<execVars, nameVars, ctorVars>>

SpecFrame == InitFrame /\ [][NextFrame]_vars

InitNames == ExecIdle /\ FrameIdle /\ NameInit /\ CtorIdle

NextNames == StripName /\ UNCHANGED <<execVars, frameVars, ctorVars>>

SpecNames == InitNames /\ [][NextNames]_vars

InitCtor == ExecIdle /\ FrameIdle /\ NameIdle /\ CtorInit

NextCtor ==
    \/ NewReader /\ UNCHANGED <<execVars, frameVars, nameVars>>
    \/ NewQuery /\ UNCHANGED <<execVars, frameVars, nameVars>>
    \/ InitService /\ UNCHANGED <<execVars, frameVars, nameVars>>

SpecCtor == InitCtor /\ [][NextCtor]_vars

-----------------------------------------------------------------------------
(* Properties of execute_query, checked under Spec *)

\* The answer to request i was a page with a first report.
ServedPage(i) == script[i].kind = "page" /\ script[i].response.reports # <<>>

\* The first report of page i carries a non-empty nextPageToken.
FirstToken(i) == script[i].response.reports[1].nextPageToken
HasMore(i)    == FirstToken(i) \notin {Absent, ""}

\* The reports of pages 1..n, in the order they arrived.
RECURSIVE ReportsUpTo(_)
ReportsUpTo(n) ==
    IF n = 0 THEN <<>> ELSE ReportsUpTo(n - 1) \o script[n].response.reports

\* The requests of the call are over and every one of them was answered.
Fetched == \/ pc \in {"collected", "returned"}
           \/ pc = "raised" /\ ret.at = "resp2frame"

\* C1: with all_results=True, when pages 1..n-1 carry a non-empty token on
\* their first report and page n does not, the call makes exactly n requests
\* (n = N+1) and out['reports'] is the pages' reports concatenated in arrival
\* order; the loop itself raises only on a page without reports or on a
\* query without a reportRequests entry.
C1_PaginationConcatenates ==
    all_results =>
        /\ Fetched =>
             LET n == Len(reqLog)
             IN  /\ n >= 1
                 /\ \A i \in 1..n : ServedPage(i) /\ (HasMore(i) <=> i < n)
                 /\ out.reports = ReportsUpTo(n)
        /\ (pc = "raised" /\ ret.at = "loop") =>
             \/ script[Len(reqLog)].response.reports = <<>>
             \/ query0.reportRequests = <<>>

\* C1 witness: a call over three pages, five reports in all, has returned.
C1_Witness ==
    /\ all_results /\ pc = "returned"
    /\ Len(reqLog) = 3
    /\ Len(out.reports) = 5

\* C2: with all_results=False the call makes one request whatever token the
\* page carries, and out (the raw result) is that response as it came.
C2_SinglePageVerbatim ==
    ~all_results =>
        /\ Len(reqLog) <= 1 /\ Len(script) <= 1
        /\ Fetched => Len(reqLog) = 1 /\ out = script[1].response
        /\ (pc = "returned" /\ as_dict) => ret = AsDict(script[1].response)

\* C2 witness: the raw result of a single-page call whose page carried a
\* token.
C2_Witness ==
    /\ ~all_results /\ pc = "returned" /\ as_dict
    /\ ServedPage(1) /\ HasMore(1)
    /\ ret.resp.reports = script[1].response.reports

\* What resp2frame makes of a raw result, as a result of a call.
Flattened(r) ==
    LET f == resp2frame(r.resp)
    IN  IF f.err # "none" THEN Raised(f.err, "resp2frame") ELSE AsFrame(f.out)

\* C4: against the same answers of the service, resp2frame applied to the
\* result of as_dict=True is the result of as_dict=False (the same table, or
\* the same exception).
C4_RawThenFlattenEqualsFlattened ==
    (resDict.kind # "none" /\ resFrame.kind # "none") =>
        IF resDict.kind = "raise" THEN resFrame = resDict
        ELSE resFrame = Flattened(resDict)

\* C4 witness: both calls have returned, over two pages, with a table of
\* three rows.
C4_Witness ==
    /\ resDict.kind = "dict" /\ resFrame.kind = "frame"
    /\ all_results /\ Len(script) = 2
    /\ Len(resFrame.table.rows) = 3

\* a is b but for the pageToken of reportRequests[0].
SameButFirstToken(a, b) ==
    /\ Len(a.reportRequests) = Len(b.reportRequests)
    /\ \A i \in 1..Len(a.reportRequests) :
         IF i = 1 THEN a.reportRequests[i].viewId = b.reportRequests[i].viewId
         ELSE a.reportRequests[i] = b.reportRequests[i]

\* C5: the caller's query is what it was, at every point of every call, and
\* the private copy differs from it in the pageToken of reportRequests[0]
\* at most.
C5_CallerQueryUnchanged ==
    /\ heap["query"] = query0
    /\ qry # "none" => qry # "query" /\ SameButFirstToken(heap[qry], query0)

\* C5 witness: a token was written into the private copy of a two-entry
\* query and the call has returned.
C5_Witness ==
    /\ pc = "returned" /\ qry # "none"
    /\ Len(query0.reportRequests) = 2
    /\ heap[qry].reportRequests[1].pageToken = "p1"
    /\ heap["query"].reportRequests[1].pageToken = Absent

\* C9: a request that fails ends the call with the exception and nothing
\* else: no pages, no table, and no request after the failed one, in this
\* call or any other.
C9_FailurePropagates ==
    /\ \A i \in 1..Len(script) : script[i].kind = "fail" => i = Len(script)
    /\ (reqLog # <<>> /\ script[Len(reqLog)].kind = "fail") =>
           /\ pc = "raised"
           /\ ret = Raised("HttpError", "batchGet")
           /\ (IF as_dict THEN resDict ELSE resFrame) = ret

\* C9 witness: the request for the second page failed after a page of two
\* reports had been gathered.
C9_Witness ==
    /\ pc = "raised" /\ ret.at = "batchGet"
    /\ Len(reqLog) = 2 /\ Len(out.reports) = 2

\* C10: after a page, another request follows exactly if the first report's
\* token is there and not empty, and that request carries this token as the
\* pageToken of reportRequests[0].
C10_FirstReportTokenDecides ==
    all_results =>
        /\ \A i \in 1..Len(reqLog) :
             i < Len(reqLog) =>
                 /\ ServedPage(i) /\ HasMore(i)
                 /\ reqLog[i + 1].reportRequests[1].pageToken = FirstToken(i)
        /\ (reqLog # <<>> /\ ServedPage(Len(reqLog)) /\ query0.reportRequests # <<>>) =>
               IF HasMore(Len(reqLog))
               THEN pc = "request"
                    /\ heap[qry].reportRequests[1].pageToken = FirstToken(Len(reqLog))
               ELSE Fetched

\* C10 witness: the first report said p1 and the second p2, the next request
\* carried p1; then the first report said nothing while the second said p2,
\* and the loop ended.
C10_Witness ==
    /\ all_results /\ pc = "collected" /\ Len(reqLog) = 2
    /\ Len(script[1].response.reports) = 2
    /\ FirstToken(1) = "p1" /\ script[1].response.reports[2].nextPageToken = "p2"
    /\ reqLog[2].reportRequests[1].pageToken = "p1"
    /\ Len(script[2].response.reports) = 2
    /\ FirstToken(2) = Absent /\ script[2].response.reports[2].nextPageToken = "p2"

-----------------------------------------------------------------------------
(* Properties of resp2frame, checked under SpecFrame *)

\* The report the loop took last.
LastReport == resp.reports[idx]

RowCount(report) == IF report.hasRows THEN Len(report.rows) ELSE 0

\* The rows of the first n reports of resp.
RECURSIVE RowsOfFirst(_)
RowsOfFirst(n) ==
    IF n = 0 THEN 0 ELSE RowsOfFirst(n - 1) + RowCount(resp.reports[n])

\* C3: a report with a well-formed header and no rows raises nothing and
\* adds nothing: as long as nothing was raised, the table holds the rows of
\* all the reports taken so far.
C3_RowlessReportAddsNothing ==
    /\ (idx >= 1 /\ fpc # "raised" /\ RowCount(LastReport) = 0) => ferr = "none"
    /\ fpc \in {"loop", "returned"} => Len(fout.rows) = RowsOfFirst(idx)

\* The flattened values of row j of the report taken last, and its columns.
LastCols      == header_cols(LastReport).cols
LastValues(j) == row_list(LastReport.rows[j])

\* The loop has taken a report with a well-formed header and with rows.
TookRows ==
    /\ idx >= 1
    /\ header_cols(LastReport).err = "none"
    /\ RowCount(LastReport) > 0

\* C8 as stated: a row whose value count differs from the column count,
\* either way, raises nothing and every row of the report is built.
C8_MismatchTolerated ==
    (TookRows /\ \E j \in 1..Len(LastReport.rows) : Len(LastValues(j)) # Len(LastCols)) =>
        /\ ferr # "IndexError"
        /\ Len(df.rows) = Len(LastReport.rows)

\* C8 as amended: a row with fewer values than there are columns raises
\* IndexError; when no row is short, rows with more values than columns
\* raise nothing and every row is the positional zip of its first values
\* with the column names, the surplus dropped.
C8_ShortRaisesLongTruncates ==
    TookRows =>
        IF \E j \in 1..Len(LastReport.rows) : Len(LastValues(j)) < Len(LastCols)
        THEN ferr = "IndexError" /\ fpc = "raised"
        ELSE /\ ferr # "IndexError"
             /\ df.columns = LastCols
             /\ Len(df.rows) = Len(LastReport.rows)
             /\ \A j \in 1..Len(df.rows) :
                  /\ Len(df.rows[j]) = Len(LastCols)
                  /\ \A i \in 1..Len(LastCols) : df.rows[j][i] = Str(LastValues(j)[i])

\* C8 witness: a row of four values under a one-column header was taken
\* without an exception, and its first value is the row.
C8_Witness ==
    /\ TookRows /\ ferr = "none"
    /\ Len(LastCols) = 1 /\ Len(LastValues(1)) = 4
    /\ df.rows = <<<<Str("20230115")>>>>

-----------------------------------------------------------------------------
(* Property of the column-name clean-up, checked under SpecNames *)

\* C6: the output name is the header name without a leading "ga:", and
\* otherwise unchanged.
C6_OnlyLeadingPrefixRemoved ==
    npc = "stripped" =>
        stripped = IF StartsWith(name, Ga) THEN SubSeq(name, Len(Ga) + 1, Len(name))
                   ELSE name

-----------------------------------------------------------------------------
(* Property of construction, checked under SpecCtor *)

\* C7: GoogleAnalyticsQuery(path of a good key file) raises nothing and
\* leaves an object whose scope is SCOPES and whose _service is a handle
\* built with that scope.
C7_ConstructionYieldsHandle ==
    (lastCall.op = "GoogleAnalyticsQuery" /\ lastCall.arg \in GoodKeyFiles) =>
        /\ lastCall.err = "none"
        /\ objs[lastCall.obj].held
        /\ objs[lastCall.obj]._scope_ = SCOPES
        /\ objs[lastCall.obj]._service.scope = SCOPES

=============================================================================
